---- MODULE Spec2Model ----
(***************************************************************************)
(* The poloc program (programs/poloc): a staked challenge-response         *)
(* protocol over a shared ledger.  Every instruction is one atomic         *)
(* transaction: the accounts named by its Accounts struct are validated in *)
(* field order, then the handler runs; an error at any point rolls the     *)
(* whole transaction back.                                                 *)
(*                                                                         *)
(* Records live at program-derived addresses.  An address is determined by *)
(* the concatenation of its seeds, so it is modelled as the tuple          *)
(* <<kind, bytes, principal>>; two derivations give the same address       *)
(* exactly when these agree.  Value is counted in lamports; the value      *)
(* transfer of the ledger succeeds when the payer holds the amount.        *)
(***************************************************************************)
EXTENDS Integers, Sequences, FiniteSets, TLC

\* ------------------------------------------------------------ constants
MIN_STAKE == 1000000
MAX_PARTICIPANTS == 20
MIN_PARTICIPANTS == 3
MAX_DURATION == 86400
MAX_LAT == 90000000
MAX_LON == 180000000
DEFAULT_R_STAR_THRESHOLD == 1000
MAX_UNCERTAINTY == 50000
MAX_RTT == 1000000
\* vote.rs compares against deadline + 300; finalize.rs names its window and
\* gives it another value when compiled with cfg(test).
VOTE_WINDOW_SECS == 300
VOTING_WINDOW == 300
VOTING_WINDOW_TEST == 3
\* Stands for u64::MAX in checked_add / checked_sub of reward_pool.  The
\* checker's integers end at 2^31 - 1; no amount of the model comes near it.
U64_MAX == 2147483647

\* Record sizes handed to `init`, and the rent-exempt reserve the payer
\* deposits for a record of that size (returned to the `close` target):
\* the ledger's default rent, 2 years of 3480 lamports per byte-year over
\* the record's bytes plus 128 bytes of account overhead.
ChallengeSpace == 8 + 123
StakeSpace == 8 + 86
VoteSpace == 8 + 123
RentExempt(space) == (128 + space) * 6960

\* ------------------------------------------------------------ universe
Principals == {"w", "c1", "c2", "c3"}

\* The address of the Challenge record of `id`:
\* seeds = [b"challenge", challenge_id.as_bytes()].
ChallengeKey(id) == "pda:" \o id

\* Challenge ids are byte strings of at most 32 bytes (the seed limit).
\* BaseId is an ordinary id; AliasId is the id whose 32 bytes are the address
\* of BaseId's record, so that slash's seeds for BaseId are stake's seeds for
\* AliasId.  A caller picks ids freely: about one address in 10^8 is a valid
\* UTF-8 string, so such a pair is found by trying ids.
BaseId == "a"
AliasId == ChallengeKey(BaseId)
ChallengeIds == {BaseId, AliasId}

\* seeds = [b"stake", challenge_id.as_bytes(), challenger.key()]  (stake, vote)
StakeSeeds(id, challenger) == <<"stake", id, challenger>>
\* seeds = [b"stake", challenge.key(), challenger_pubkey]         (slash)
SlashSeeds(id, challenger_pubkey) == <<"stake", ChallengeKey(id), challenger_pubkey>>
\* seeds = [b"vote", challenge_id.as_bytes(), winner.key()]
VoteSeeds(id, challenger) == <<"vote", id, challenger>>

\* The addresses at which stake and submit_vote create records.
StakeAddrs == {StakeSeeds(i, p) : i \in ChallengeIds, p \in Principals}
VoteAddrs == {VoteSeeds(i, p) : i \in ChallengeIds, p \in Principals}

NoAccount == [exists |-> FALSE]

\* The instants at which transactions are observed (Clock::get()): the
\* creation instant, the staking deadline of a challenge created then, the
\* last instant of its voting window and the first instant after it.
Times == {0, 1, VOTE_WINDOW_SECS + 1, VOTE_WINDOW_SECS + 2}

\* Inputs of the calls.  Funding is the amount a creator funds a challenge
\* with; a creation with reward_pool = 0 is also attempted, and so are
\* creations with one parameter just outside its range or at the end of the
\* i32 range.
Funding == 3000000
ValidCreateArgs ==
    [lat |-> 45000000, lon |-> -180000000, duration |-> 1, reward_pool |-> Funding]
CreateArgs ==
    { ValidCreateArgs,
      [ValidCreateArgs EXCEPT !.reward_pool = 0],
      [ValidCreateArgs EXCEPT !.duration = 0],
      [ValidCreateArgs EXCEPT !.duration = MAX_DURATION + 1],
      [ValidCreateArgs EXCEPT !.lat = MAX_LAT + 1],
      [ValidCreateArgs EXCEPT !.lat = -MAX_LAT - 1],
      [ValidCreateArgs EXCEPT !.lon = MAX_LON + 1],
      [ValidCreateArgs EXCEPT !.lat = 2147483647],
      [ValidCreateArgs EXCEPT !.lat = -2147483647 - 1],
      [ValidCreateArgs EXCEPT !.lon = -2147483647 - 1] }
StakeAmounts == {MIN_STAKE - 1, MIN_STAKE}
\* Who signs as creator or authority: the creator and one other principal.
Signers == {"w", "c1"}
RStars == {DEFAULT_R_STAR_THRESHOLD, DEFAULT_R_STAR_THRESHOLD + 1}
VoteArgs ==
    { [is_valid |-> TRUE,  uncertainty |-> 100,   min_rtt |-> 5000],
      [is_valid |-> FALSE, uncertainty |-> 100,   min_rtt |-> 5000],
      [is_valid |-> TRUE,  uncertainty |-> 50001, min_rtt |-> 5000] }

\* What each principal holds at the start: the creator can fund two
\* challenges and stake once, a challenger can stake once and vote once.
InitialLamports(p) ==
    IF p = "w"
    THEN 2 * (Funding + RentExempt(ChallengeSpace)) + MIN_STAKE + RentExempt(StakeSpace)
    ELSE MIN_STAKE + RentExempt(StakeSpace) + RentExempt(VoteSpace)

\* ------------------------------------------------------------ state
VARIABLES
    cfg_test,   \* whether the program was compiled with cfg(test)
    overflow_checks, \* whether it was compiled with overflow checks
    now,        \* Clock::get().unix_timestamp
    challenge,  \* id -> Challenge record, or NoAccount
    stake,      \* address -> Stake record, or NoAccount
    vote,       \* address -> Vote record, or NoAccount
    lamports,   \* balance of every principal and of every challenge address
    hist        \* id -> what was paid into and out of the present record

vars == <<cfg_test, overflow_checks, now, challenge, stake, vote, lamports, hist>>

\* The Stake record at an address; no record was ever created at an address
\* outside StakeAddrs.
StakeAt(addr) == IF addr \in DOMAIN stake THEN stake[addr] ELSE NoAccount

NoHist == [funding |-> 0, staked |-> 0, stakers |-> {}, validVoters |-> {},
           paid |-> <<>>, slashed |-> 0, slashedKeys |-> {}, refunded |-> 0,
           finalPool |-> 0]

\* The program as built for deployment (cfg(not(test)), overflow checks on),
\* before any instruction; SpecTestBuild and SpecBuilds start from the other
\* builds.
Init ==
    /\ cfg_test = FALSE
    /\ overflow_checks = TRUE
    /\ now = 0
    /\ challenge = [i \in ChallengeIds |-> NoAccount]
    /\ stake = [a \in StakeAddrs |-> NoAccount]
    /\ vote = [a \in VoteAddrs |-> NoAccount]
    /\ lamports = [k \in Principals \cup {ChallengeKey(i) : i \in ChallengeIds} |->
                     IF k \in Principals THEN InitialLamports(k) ELSE 0]
    /\ hist = [i \in ChallengeIds |-> NoHist]

\* ------------------------------------------------------------ clock
Tick ==
    /\ \E t \in Times : t > now /\ now' = t
    /\ UNCHANGED <<cfg_test, overflow_checks, challenge, stake, vote, lamports, hist>>

\* ------------------------------------------------------------ transactions
\* An instruction returns Result<()>.  On Ok the ledger commits the account
\* changes the instruction made; on Err it discards all of them, also those
\* of `init` and of value transfers that ran before the failing statement
\* (`partial`).
Atomic_NoRollback(err, commit, partial) == IF err = "Ok" THEN commit ELSE partial

Atomic(err, commit, partial) == IF err = "Ok" THEN commit ELSE UNCHANGED vars

\* Records as `init` allocates them, before the handler writes the fields.
BlankChallenge ==
    [exists |-> TRUE, challenge_id |-> "", waldo |-> "", claimed_lat |-> 0,
     claimed_lon |-> 0, start_time |-> 0, deadline |-> 0, reward_pool |-> 0,
     status |-> "Active", participant_count |-> 0, vote_count |-> 0,
     valid_vote_count |-> 0, r_star |-> 0, r_star_threshold |-> 0,
     rewards_distributed |-> FALSE]
BlankStake ==
    [exists |-> TRUE, challenger |-> "", challenge_id |-> "", amount |-> 0,
     slashed |-> FALSE]
BlankVote ==
    [exists |-> TRUE, challenger |-> "", challenge_id |-> "", is_valid |-> FALSE,
     uncertainty |-> 0, min_rtt |-> 0, processed |-> FALSE]

\* ------------------------------------------------------------ arithmetic
CheckedAdd(a, b) == IF a + b > U64_MAX THEN -1 ELSE a + b
CheckedSub(a, b) == IF a < b THEN -1 ELSE a - b

\* i32::abs.  The absolute value of i32::MIN is not an i32: a build with
\* overflow checks panics there, a build without them returns i32::MIN.
I32_MIN == -2147483647 - 1
AbsOverflows(x) == x = I32_MIN
Abs(x) == IF AbsOverflows(x) THEN I32_MIN ELSE IF x < 0 THEN -x ELSE x

\* ------------------------------------------------------------ initialize_challenge
InitializeChallengeErr(id, waldo, claimed_lat, claimed_lon, duration, reward_pool) ==
    IF challenge[id].exists THEN "AccountAlreadyInUse"
    ELSE IF lamports[waldo] < RentExempt(ChallengeSpace) THEN "InsufficientLamports"
    ELSE IF ~(duration > 0 /\ duration <= MAX_DURATION) THEN "InvalidParameters"
    ELSE IF ~(reward_pool > 0) THEN "InvalidParameters"
    ELSE IF overflow_checks /\ AbsOverflows(claimed_lat) THEN "ProgramFailedToComplete"
    ELSE IF ~(Abs(claimed_lat) <= MAX_LAT) THEN "InvalidParameters"
    ELSE IF overflow_checks /\ AbsOverflows(claimed_lon) THEN "ProgramFailedToComplete"
    ELSE IF ~(Abs(claimed_lon) <= MAX_LON) THEN "InvalidParameters"
    ELSE IF lamports[waldo] - RentExempt(ChallengeSpace) < reward_pool
         THEN "InsufficientLamports"
    ELSE "Ok"

NewChallenge(id, waldo, claimed_lat, claimed_lon, duration, reward_pool) ==
    [exists |-> TRUE,
     challenge_id |-> id,
     waldo |-> waldo,
     claimed_lat |-> claimed_lat,
     claimed_lon |-> claimed_lon,
     start_time |-> now,
     deadline |-> now + duration,
     reward_pool |-> reward_pool,
     status |-> "Active",
     participant_count |-> 0,
     vote_count |-> 0,
     valid_vote_count |-> 0,
     r_star |-> 0,
     r_star_threshold |-> DEFAULT_R_STAR_THRESHOLD,
     rewards_distributed |-> FALSE]

\* What ran before an error: nothing if account validation failed; else
\* `init` allocated the record and took its rent, and if the error is the
\* failed transfer the handler had written the fields (lines 41-55).
InitializeChallengePartial(id, waldo, claimed_lat, claimed_lon, duration, reward_pool) ==
    LET err == InitializeChallengeErr(id, waldo, claimed_lat, claimed_lon,
                                      duration, reward_pool)
    IN
    IF challenge[id].exists \/ lamports[waldo] < RentExempt(ChallengeSpace)
    THEN UNCHANGED vars
    ELSE /\ challenge' = [challenge EXCEPT ![id] =
               IF err \in {"InvalidParameters", "ProgramFailedToComplete"}
               THEN BlankChallenge
               ELSE [NewChallenge(id, waldo, claimed_lat, claimed_lon, duration,
                                  reward_pool) EXCEPT !.reward_pool = 0]]
         /\ lamports' = [lamports EXCEPT
               ![waldo] = @ - RentExempt(ChallengeSpace),
               ![ChallengeKey(id)] = @ + RentExempt(ChallengeSpace)]
         /\ UNCHANGED <<cfg_test, overflow_checks, now, stake, vote, hist>>

InitializeChallenge(id, waldo, claimed_lat, claimed_lon, duration, reward_pool) ==
    LET err == InitializeChallengeErr(id, waldo, claimed_lat, claimed_lon,
                                      duration, reward_pool)
        paid == RentExempt(ChallengeSpace) + reward_pool
    IN
    /\ Atomic(err,
        /\ challenge' = [challenge EXCEPT ![id] =
              NewChallenge(id, waldo, claimed_lat, claimed_lon,
                           duration, reward_pool)]
        /\ lamports' = [lamports EXCEPT
              ![waldo] = @ - paid,
              ![ChallengeKey(id)] = @ + paid]
        /\ hist' = [hist EXCEPT ![id] =
              [NoHist EXCEPT !.funding = reward_pool]]
        /\ UNCHANGED <<cfg_test, overflow_checks, now, stake, vote>>,
        InitializeChallengePartial(id, waldo, claimed_lat, claimed_lon, duration, reward_pool))

\* ------------------------------------------------------------ stake
StakeErr_NoCap(id, challenger, amount) ==
    LET c == challenge[id] IN
    IF ~c.exists THEN "AccountNotInitialized"
    ELSE IF stake[StakeSeeds(id, challenger)].exists THEN "AccountAlreadyInUse"
    ELSE IF lamports[challenger] < RentExempt(StakeSpace) THEN "InsufficientLamports"
    ELSE IF ~(c.status = "Active") THEN "ChallengeNotActive"
    ELSE IF ~(now <= c.deadline) THEN "ChallengeExpired"
    ELSE IF ~(amount >= MIN_STAKE) THEN "InsufficientStake"
    ELSE IF lamports[challenger] - RentExempt(StakeSpace) < amount
         THEN "InsufficientLamports"
    ELSE IF CheckedAdd(c.reward_pool, amount) < 0 THEN "ArithmeticOverflow"
    ELSE "Ok"

StakeErr(id, challenger, amount) ==
    LET c == challenge[id] IN
    IF ~c.exists THEN "AccountNotInitialized"
    ELSE IF stake[StakeSeeds(id, challenger)].exists THEN "AccountAlreadyInUse"
    ELSE IF lamports[challenger] < RentExempt(StakeSpace) THEN "InsufficientLamports"
    ELSE IF ~(c.status = "Active") THEN "ChallengeNotActive"
    ELSE IF ~(now <= c.deadline) THEN "ChallengeExpired"
    ELSE IF ~(amount >= MIN_STAKE) THEN "InsufficientStake"
    ELSE IF ~(c.participant_count < MAX_PARTICIPANTS) THEN "MaxParticipantsReached"
    ELSE IF lamports[challenger] - RentExempt(StakeSpace) < amount
         THEN "InsufficientLamports"
    ELSE IF CheckedAdd(c.reward_pool, amount) < 0 THEN "ArithmeticOverflow"
    ELSE "Ok"

NewStake(id, challenger, amount) ==
    [exists |-> TRUE, challenger |-> challenger, challenge_id |-> id,
     amount |-> amount, slashed |-> FALSE]

StakedChallenge(c, amount) ==
    [c EXCEPT !.reward_pool = CheckedAdd(c.reward_pool, amount),
              !.participant_count = c.participant_count + 1]

\* What ran before an error: nothing if account validation failed; else
\* `init` allocated the Stake record and took its rent, and if the error is
\* the overflow of reward_pool the transfer (lines 50-59) had run as well.
StakePartial(id, challenger, amount) ==
    LET err == StakeErr(id, challenger, amount)
        moved == IF err = "ArithmeticOverflow" THEN amount ELSE 0
    IN
    IF \/ ~challenge[id].exists
       \/ stake[StakeSeeds(id, challenger)].exists
       \/ lamports[challenger] < RentExempt(StakeSpace)
    THEN UNCHANGED vars
    ELSE /\ stake' = [stake EXCEPT ![StakeSeeds(id, challenger)] = BlankStake]
         /\ lamports' = [lamports EXCEPT
               ![challenger] = @ - RentExempt(StakeSpace) - moved,
               ![ChallengeKey(id)] = @ + moved]
         /\ UNCHANGED <<cfg_test, overflow_checks, now, challenge, vote, hist>>

Stake(id, challenger, amount) ==
    LET err == StakeErr(id, challenger, amount) IN
    /\ Atomic(err,
        /\ lamports' = [lamports EXCEPT
              ![challenger] = @ - RentExempt(StakeSpace) - amount,
              ![ChallengeKey(id)] = @ + amount]
        /\ challenge' = [challenge EXCEPT ![id] = StakedChallenge(@, amount)]
        /\ stake' = [stake EXCEPT ![StakeSeeds(id, challenger)] =
              NewStake(id, challenger, amount)]
        /\ hist' = [hist EXCEPT ![id].staked = @ + amount,
                                 ![id].stakers = @ \cup {challenger}]
        /\ UNCHANGED <<cfg_test, overflow_checks, now, vote>>,
        StakePartial(id, challenger, amount))

\* ------------------------------------------------------------ submit_vote
SubmitVoteErr_ClosedAtBoundary(id, challenger, is_valid, uncertainty, min_rtt) ==
    LET c == challenge[id] IN
    IF ~c.exists THEN "AccountNotInitialized"
    ELSE IF ~stake[StakeSeeds(id, challenger)].exists THEN "AccountNotInitialized"
    ELSE IF vote[VoteSeeds(id, challenger)].exists THEN "AccountAlreadyInUse"
    ELSE IF lamports[challenger] < RentExempt(VoteSpace) THEN "InsufficientLamports"
    ELSE IF ~(c.status = "Active") THEN "ChallengeNotActive"
    ELSE IF now <= c.deadline THEN "VotingNotOpen"
    ELSE IF now >= c.deadline + VOTE_WINDOW_SECS THEN "VotingClosed"
    ELSE IF stake[StakeSeeds(id, challenger)].slashed THEN "StakeSlashed"
    ELSE IF ~(uncertainty <= MAX_UNCERTAINTY) THEN "InvalidParameters"
    ELSE IF ~(min_rtt > 0 /\ min_rtt <= MAX_RTT) THEN "InvalidParameters"
    ELSE "Ok"

SubmitVoteErr(id, challenger, is_valid, uncertainty, min_rtt) ==
    LET c == challenge[id] IN
    IF ~c.exists THEN "AccountNotInitialized"
    ELSE IF ~stake[StakeSeeds(id, challenger)].exists THEN "AccountNotInitialized"
    ELSE IF vote[VoteSeeds(id, challenger)].exists THEN "AccountAlreadyInUse"
    ELSE IF lamports[challenger] < RentExempt(VoteSpace) THEN "InsufficientLamports"
    ELSE IF ~(c.status = "Active") THEN "ChallengeNotActive"
    ELSE IF now <= c.deadline THEN "VotingNotOpen"
    ELSE IF now > c.deadline + VOTE_WINDOW_SECS THEN "VotingClosed"
    ELSE IF stake[StakeSeeds(id, challenger)].slashed THEN "StakeSlashed"
    ELSE IF ~(uncertainty <= MAX_UNCERTAINTY) THEN "InvalidParameters"
    ELSE IF ~(min_rtt > 0 /\ min_rtt <= MAX_RTT) THEN "InvalidParameters"
    ELSE "Ok"

NewVote(id, challenger, is_valid, uncertainty, min_rtt) ==
    [exists |-> TRUE, challenger |-> challenger, challenge_id |-> id,
     is_valid |-> is_valid, uncertainty |-> uncertainty, min_rtt |-> min_rtt,
     processed |-> FALSE]

VotedChallenge(c, is_valid) ==
    [c EXCEPT !.vote_count = c.vote_count + 1,
              !.valid_vote_count = IF is_valid THEN c.valid_vote_count + 1
                                   ELSE c.valid_vote_count]

\* What ran before an error: nothing if account validation failed; else
\* `init` allocated the Vote record and took its rent (every check of the
\* handler precedes its first write).
SubmitVotePartial(id, challenger) ==
    IF \/ ~challenge[id].exists
       \/ ~stake[StakeSeeds(id, challenger)].exists
       \/ vote[VoteSeeds(id, challenger)].exists
       \/ lamports[challenger] < RentExempt(VoteSpace)
    THEN UNCHANGED vars
    ELSE /\ vote' = [vote EXCEPT ![VoteSeeds(id, challenger)] = BlankVote]
         /\ lamports' = [lamports EXCEPT ![challenger] = @ - RentExempt(VoteSpace)]
         /\ UNCHANGED <<cfg_test, overflow_checks, now, challenge, stake, hist>>

SubmitVote(id, challenger, is_valid, uncertainty, min_rtt) ==
    LET err == SubmitVoteErr(id, challenger, is_valid, uncertainty, min_rtt) IN
    /\ Atomic(err,
        /\ lamports' = [lamports EXCEPT ![challenger] = @ - RentExempt(VoteSpace)]
        /\ vote' = [vote EXCEPT ![VoteSeeds(id, challenger)] =
              NewVote(id, challenger, is_valid, uncertainty, min_rtt)]
        /\ challenge' = [challenge EXCEPT ![id] = VotedChallenge(@, is_valid)]
        /\ hist' = [hist EXCEPT ![id].validVoters =
              IF is_valid THEN @ \cup {challenger} ELSE @]
        /\ UNCHANGED <<cfg_test, overflow_checks, now, stake>>,
        SubmitVotePartial(id, challenger))

\* ------------------------------------------------------------ finalize_challenge
\* const VOTING_WINDOW, selected by #[cfg(not(test))] / #[cfg(test)].
VotingWindow == IF cfg_test THEN VOTING_WINDOW_TEST ELSE VOTING_WINDOW

FinalizeErr_NoStatusCheck(id, authority, r_star_from_js) ==
    LET c == challenge[id] IN
    IF ~c.exists THEN "AccountNotInitialized"
    ELSE IF authority # c.waldo THEN "Unauthorized"
    ELSE IF ~(now > c.deadline + VotingWindow) THEN "ChallengeExpired"
    ELSE "Ok"

FinalizeErr(id, authority, r_star_from_js) ==
    LET c == challenge[id] IN
    IF ~c.exists THEN "AccountNotInitialized"
    ELSE IF authority # c.waldo THEN "Unauthorized"
    ELSE IF ~(c.status = "Active") THEN "ChallengeNotActive"
    ELSE IF ~(now > c.deadline + VotingWindow) THEN "ChallengeExpired"
    ELSE "Ok"

FinalizedChallenge_NoFloor(c, r_star_from_js) ==
    [c EXCEPT !.r_star = r_star_from_js, !.status = "Finalized"]

FinalizedChallenge(c, r_star_from_js) ==
    IF c.participant_count < MIN_PARTICIPANTS
    THEN [c EXCEPT !.status = "InsufficientParticipants"]
    ELSE [c EXCEPT !.r_star = r_star_from_js, !.status = "Finalized"]

Finalize(id, authority, r_star_from_js) ==
    LET err == FinalizeErr(id, authority, r_star_from_js) IN
    /\ Atomic(err,
        /\ challenge' = [challenge EXCEPT ![id] =
              FinalizedChallenge(@, r_star_from_js)]
        /\ hist' = [hist EXCEPT ![id].finalPool = challenge[id].reward_pool]
        /\ UNCHANGED <<cfg_test, overflow_checks, now, stake, vote, lamports>>,
        \* every check precedes the first write
        UNCHANGED vars)

\* ------------------------------------------------------------ claim_reward
Passed(c) == c.r_star <= c.r_star_threshold

RewardPerParticipant_WithStake(c) == c.reward_pool \div c.valid_vote_count + MIN_STAKE

\* reward_pool.checked_div(valid_vote_count as u64)
RewardPerParticipant(c) == c.reward_pool \div c.valid_vote_count

ClaimRewardErr(id, winner) ==
    LET c == challenge[id]
        v == vote[VoteSeeds(id, winner)]
    IN
    IF ~c.exists THEN "AccountNotInitialized"
    ELSE IF ~v.exists THEN "AccountNotInitialized"
    ELSE IF ~(v.challenger = winner) THEN "Unauthorized"
    ELSE IF v.processed THEN "AlreadyClaimed"
    ELSE IF ~(c.status = "Finalized") THEN "ChallengeNotFinalized"
    ELSE IF ~Passed(c) THEN "ChallengeFailed"
    ELSE IF ~v.is_valid THEN "VotedIncorrectly"
    ELSE IF ~(c.valid_vote_count > 0) THEN "NoValidVotes"
    ELSE IF lamports[ChallengeKey(id)] - RewardPerParticipant(c)
              < RentExempt(ChallengeSpace)
         THEN "InsufficientLamports"
    ELSE IF CheckedSub(c.reward_pool, RewardPerParticipant(c)) < 0
         THEN "ArithmeticOverflow"
    ELSE "Ok"

ClaimedChallenge(c) ==
    LET pool == CheckedSub(c.reward_pool, RewardPerParticipant(c)) IN
    [c EXCEPT !.reward_pool = pool,
              !.rewards_distributed = IF pool = 0 THEN TRUE
                                      ELSE c.rewards_distributed]

ClaimedVote_NoFlag(v) == v

ClaimedVote(v) == [v EXCEPT !.processed = TRUE]

\* What ran before an error: the transfer (lines 59-65) and the processed
\* flag (line 68) if the error is the checked_sub of line 69; else nothing.
ClaimRewardPartial(id, winner) ==
    IF ClaimRewardErr(id, winner) = "ArithmeticOverflow"
    THEN /\ lamports' = [lamports EXCEPT
               ![ChallengeKey(id)] = @ - RewardPerParticipant(challenge[id]),
               ![winner] = @ + RewardPerParticipant(challenge[id])]
         /\ vote' = [vote EXCEPT ![VoteSeeds(id, winner)] = ClaimedVote(@)]
         /\ UNCHANGED <<cfg_test, overflow_checks, now, challenge, stake, hist>>
    ELSE UNCHANGED vars

ClaimReward(id, winner) ==
    LET err == ClaimRewardErr(id, winner)
        reward == RewardPerParticipant(challenge[id])
    IN
    /\ Atomic(err,
        /\ lamports' = [lamports EXCEPT
              ![ChallengeKey(id)] = @ - reward,
              ![winner] = @ + reward]
        /\ vote' = [vote EXCEPT ![VoteSeeds(id, winner)] = ClaimedVote(@)]
        /\ challenge' = [challenge EXCEPT ![id] = ClaimedChallenge(@)]
        /\ hist' = [hist EXCEPT ![id].paid = Append(@, <<winner, reward>>)]
        /\ UNCHANGED <<cfg_test, overflow_checks, now, stake>>,
        ClaimRewardPartial(id, winner))

\* ------------------------------------------------------------ slash
SlashErr(id, challenger_pubkey, authority) ==
    LET c == challenge[id] IN
    IF ~c.exists THEN "AccountNotInitialized"
    ELSE IF ~StakeAt(SlashSeeds(id, challenger_pubkey)).exists THEN "ConstraintSeeds"
    ELSE IF authority # c.waldo THEN "Unauthorized"
    ELSE IF ~(c.status = "Finalized") THEN "ChallengeNotFinalized"
    ELSE IF CheckedAdd(c.reward_pool, StakeAt(SlashSeeds(id, challenger_pubkey)).amount) < 0
         THEN "ArithmeticOverflow"
    ELSE "Ok"

SlashedChallenge(c, stake_account) ==
    [c EXCEPT !.reward_pool = CheckedAdd(c.reward_pool, stake_account.amount)]

\* close = challenge: the record is removed, its lamports go to the challenge.
Slash(id, challenger_pubkey, authority) ==
    LET err == SlashErr(id, challenger_pubkey, authority)
        addr == SlashSeeds(id, challenger_pubkey)
    IN
    /\ Atomic(err,
        /\ challenge' = [challenge EXCEPT ![id] = SlashedChallenge(@, stake[addr])]
        /\ stake' = [stake EXCEPT ![addr] = NoAccount]
        /\ lamports' = [lamports EXCEPT
              ![ChallengeKey(id)] = @ + RentExempt(StakeSpace)]
        /\ hist' = [hist EXCEPT ![id].slashed = @ + stake[addr].amount,
                                 ![id].slashedKeys = @ \cup {challenger_pubkey}]
        /\ UNCHANGED <<cfg_test, overflow_checks, now, vote>>,
        \* every check precedes the first write; `close` runs on exit
        UNCHANGED vars)

\* ------------------------------------------------------------ refund_failed_challenge
RefundErr_NoDistributedCheck(id, waldo_account, authority) ==
    LET c == challenge[id] IN
    IF ~c.exists THEN "AccountNotInitialized"
    ELSE IF authority # waldo_account THEN "Unauthorized"
    ELSE IF waldo_account # c.waldo THEN "Unauthorized"
    ELSE IF ~(c.status = "Finalized" \/ c.status = "InsufficientParticipants")
         THEN "ChallengeNotFinalized"
    ELSE IF c.status = "Finalized" /\ Passed(c) THEN "CannotRefundSuccessfulChallenge"
    ELSE "Ok"

RefundErr_NoVerdictCheck(id, waldo_account, authority) ==
    LET c == challenge[id] IN
    IF ~c.exists THEN "AccountNotInitialized"
    ELSE IF authority # waldo_account THEN "Unauthorized"
    ELSE IF waldo_account # c.waldo THEN "Unauthorized"
    ELSE IF ~(c.status = "Finalized" \/ c.status = "InsufficientParticipants")
         THEN "ChallengeNotFinalized"
    ELSE IF c.rewards_distributed THEN "RewardsAlreadyDistributed"
    ELSE "Ok"

RefundErr(id, waldo_account, authority) ==
    LET c == challenge[id] IN
    IF ~c.exists THEN "AccountNotInitialized"
    ELSE IF authority # waldo_account THEN "Unauthorized"
    ELSE IF waldo_account # c.waldo THEN "Unauthorized"
    ELSE IF ~(c.status = "Finalized" \/ c.status = "InsufficientParticipants")
         THEN "ChallengeNotFinalized"
    ELSE IF c.rewards_distributed THEN "RewardsAlreadyDistributed"
    ELSE IF c.status = "Finalized" /\ Passed(c) THEN "CannotRefundSuccessfulChallenge"
    ELSE "Ok"

\* close = waldo_account: the record is removed, all its lamports go to the waldo.
RefundFailedChallenge(id, waldo_account, authority) ==
    LET err == RefundErr(id, waldo_account, authority)
        key == ChallengeKey(id)
    IN
    /\ Atomic(err,
        /\ challenge' = [challenge EXCEPT ![id] = NoAccount]
        /\ lamports' = [lamports EXCEPT
              ![waldo_account] = @ + lamports[key],
              ![key] = 0]
        /\ hist' = [hist EXCEPT ![id].refunded =
              lamports[key] - RentExempt(ChallengeSpace)]
        /\ UNCHANGED <<cfg_test, overflow_checks, now, stake, vote>>,
        \* the handler writes nothing; `close` runs on exit
        UNCHANGED vars)

\* ------------------------------------------------------------ next-state relation
Next ==
    \/ Tick
    \/ \E id \in ChallengeIds, w \in Signers, a \in CreateArgs :
          InitializeChallenge(id, w, a.lat, a.lon, a.duration, a.reward_pool)
    \/ \E id \in ChallengeIds, p \in Principals, amount \in StakeAmounts :
          Stake(id, p, amount)
    \/ \E id \in ChallengeIds, p \in Principals, a \in VoteArgs :
          SubmitVote(id, p, a.is_valid, a.uncertainty, a.min_rtt)
    \/ \E id \in ChallengeIds, p \in Signers, r \in RStars : Finalize(id, p, r)
    \/ \E id \in ChallengeIds, p \in Principals : ClaimReward(id, p)
    \/ \E id \in ChallengeIds, p \in Principals, a \in Signers : Slash(id, p, a)
    \/ \E id \in ChallengeIds, p \in Signers, a \in Signers :
          RefundFailedChallenge(id, p, a)

Spec == Init /\ [][Next]_vars

\* ------------------------------------------------------------ history
RECURSIVE SumPaid(_)
SumPaid(paid) == IF paid = <<>> THEN 0 ELSE Head(paid)[2] + SumPaid(Tail(paid))

\* How often `p` was paid from the present record of `id`.
TimesPaid(id, p) == Cardinality({i \in 1..Len(hist[id].paid) : hist[id].paid[i][1] = p})

\* The value the challenge address holds beyond the record's own reserve.
EscrowValue(id) == lamports[ChallengeKey(id)] - RentExempt(ChallengeSpace)

\* ------------------------------------------------------------ claims

\* C1: for every challenge record, reward_pool equals initial funding plus
\* the successful stakes minus the claim payouts (a refund closes the
\* record), is never negative, and equals the value held in escrow.
C1_EscrowAccounting ==
    \A id \in ChallengeIds : challenge[id].exists =>
        /\ challenge[id].reward_pool =
              hist[id].funding + hist[id].staked - SumPaid(hist[id].paid)
        /\ challenge[id].reward_pool >= 0
        /\ challenge[id].reward_pool = EscrowValue(id)

\* C2: on a Finalized, passed challenge every successful claim_reward pays
\* the reward_pool as it stood at finalization divided by valid_vote_count.
C2_EqualReward ==
    \A id \in ChallengeIds : \A i \in 1..Len(hist[id].paid) :
        challenge[id].exists =>
            hist[id].paid[i][2] =
                hist[id].finalPool \div challenge[id].valid_vote_count

\* C3: on a Finalized, passed challenge whose pool at finalization is a
\* multiple of valid_vote_count, once every voter with is_valid = true has
\* claimed, reward_pool = 0 and rewards_distributed = true.
AllValidVotersClaimed(id) ==
    /\ \A p \in Principals :
          LET v == vote[VoteSeeds(id, p)] IN (v.exists /\ v.is_valid) => v.processed
    /\ Len(hist[id].paid) = challenge[id].valid_vote_count
C3_FullClaimOut ==
    \A id \in ChallengeIds :
        LET c == challenge[id] IN
        ( /\ c.exists /\ c.status = "Finalized" /\ Passed(c)
          /\ c.valid_vote_count > 0
          /\ hist[id].finalPool % c.valid_vote_count = 0
          /\ AllValidVotersClaimed(id) )
        => (c.reward_pool = 0 /\ c.rewards_distributed)

\* C4: a vote whose processed flag is set was paid exactly once from its
\* challenge and any further claim_reward by its owner is answered
\* AlreadyClaimed; a vote not yet processed was never paid; the pool's
\* debits are exactly these payouts.
C4_OneClaimPerVote ==
    \A id \in ChallengeIds :
        /\ \A p \in Principals :
              LET v == vote[VoteSeeds(id, p)] IN
              IF v.exists /\ v.processed
              THEN /\ challenge[id].exists
                   /\ ClaimRewardErr(id, p) = "AlreadyClaimed"
                   /\ TimesPaid(id, p) = 1
              ELSE challenge[id].exists => TimesPaid(id, p) = 0
        /\ challenge[id].exists =>
              challenge[id].reward_pool =
                  hist[id].funding + hist[id].staked + hist[id].slashed
                      - SumPaid(hist[id].paid)
C4_Witness ==
    \E id \in ChallengeIds, p \in Principals :
        /\ vote[VoteSeeds(id, p)].exists /\ vote[VoteSeeds(id, p)].processed
        /\ hist[id].paid # <<>>
        /\ \E q \in Principals \ {p} : ClaimRewardErr(id, q) = "Ok"

\* C5: a successful slash(challenge_id, challenger) sets that stake's slashed
\* flag and leaves the challenge record, every balance, every vote and every
\* other stake unchanged.
C5_SlashMovesNoValue ==
    [][\A id \in ChallengeIds, p \in Principals, a \in Signers :
          (SlashErr(id, p, a) = "Ok" /\ Slash(id, p, a)) =>
              /\ challenge' = challenge
              /\ lamports' = lamports
              /\ vote' = vote
              /\ \A addr \in StakeAddrs :
                    stake'[addr] = IF addr = StakeSeeds(id, p)
                                   THEN [stake[addr] EXCEPT !.slashed = TRUE]
                                   ELSE stake[addr]]_vars

\* C6: slash by the creator of a challenge, against a challenger who staked
\* on it, is answered ChallengeNotFinalized unless the status is Finalized,
\* AlreadySlashed if the stake is slashed, and succeeds otherwise.
C6_SlashGuards ==
    \A id \in ChallengeIds, p \in Principals :
        (challenge[id].exists /\ stake[StakeSeeds(id, p)].exists) =>
            SlashErr(id, p, challenge[id].waldo) =
                IF challenge[id].status # "Finalized" THEN "ChallengeNotFinalized"
                ELSE IF stake[StakeSeeds(id, p)].slashed THEN "AlreadySlashed"
                ELSE "Ok"

\* C7: once rewards_distributed is true, no step (claim_reward,
\* refund_failed_challenge and slash are the calls that can still succeed)
\* changes reward_pool.
C7_SettledPoolFrozen ==
    [][\A id \in ChallengeIds :
          (challenge[id].exists /\ challenge[id].rewards_distributed) =>
              (challenge'[id].exists
                  /\ challenge'[id].reward_pool = challenge[id].reward_pool)]_vars

\* C9: participant_count equals the number of distinct challengers whose
\* stake on the record succeeded and never exceeds 20; at 20 every stake is
\* answered MaxParticipantsReached.
C9_ParticipantCounting ==
    \A id \in ChallengeIds : challenge[id].exists =>
        /\ challenge[id].participant_count = Cardinality(hist[id].stakers)
        /\ challenge[id].participant_count <= MAX_PARTICIPANTS
        /\ challenge[id].participant_count >= MAX_PARTICIPANTS =>
              \A p \in Principals, amount \in StakeAmounts :
                  StakeErr(id, p, amount) # "Ok"

\* Arguments of submit_vote the voting-window statements range over.
VoteInputs ==
    [is_valid : BOOLEAN,
     uncertainty : {0, MAX_UNCERTAINTY, MAX_UNCERTAINTY + 1},
     min_rtt : {0, 1, MAX_RTT, MAX_RTT + 1}]

VoteReply(id, p, a) == SubmitVoteErr(id, p, a.is_valid, a.uncertainty, a.min_rtt)

InWindow(c) == now > c.deadline /\ now <= c.deadline + VOTE_WINDOW_SECS

\* The vote reaches the handler's window check: the challenge is Active, the
\* caller holds a Stake record and no Vote record, and can pay the new
\* record's rent.
ReachesWindowCheck(id, p) ==
    /\ challenge[id].exists
    /\ challenge[id].status = "Active"
    /\ stake[StakeSeeds(id, p)].exists
    /\ ~vote[VoteSeeds(id, p)].exists
    /\ lamports[p] >= RentExempt(VoteSpace)

\* C10 as written: for every argument, a submit_vote at now <= deadline is
\* answered VotingNotOpen and at now > deadline + 300 is answered
\* VotingClosed (read for a staked challenger who can pay for the record).
C10_WindowErrorsAsWritten ==
    \A id \in ChallengeIds, p \in Principals, a \in VoteInputs :
        (/\ challenge[id].exists
         /\ stake[StakeSeeds(id, p)].exists
         /\ lamports[p] >= RentExempt(VoteSpace)) =>
            /\ now <= challenge[id].deadline => VoteReply(id, p, a) = "VotingNotOpen"
            /\ now > challenge[id].deadline + VOTE_WINDOW_SECS =>
                  VoteReply(id, p, a) = "VotingClosed"

\* C10 amended: no submit_vote outside (deadline, deadline + 300] succeeds,
\* whatever its arguments; when the call reaches the window check it is
\* answered VotingNotOpen at now <= deadline and VotingClosed at
\* now > deadline + 300; now = deadline + 300 is inside the window, where a
\* call with admissible arguments is accepted.
C10_VotingWindow ==
    \A id \in ChallengeIds, p \in Principals, a \in VoteInputs :
        challenge[id].exists =>
            /\ ~InWindow(challenge[id]) => VoteReply(id, p, a) # "Ok"
            /\ ReachesWindowCheck(id, p) =>
                  /\ now <= challenge[id].deadline =>
                        VoteReply(id, p, a) = "VotingNotOpen"
                  /\ now > challenge[id].deadline + VOTE_WINDOW_SECS =>
                        VoteReply(id, p, a) = "VotingClosed"
                  /\ now = challenge[id].deadline + VOTE_WINDOW_SECS =>
                        VoteReply(id, p, a) \notin {"VotingNotOpen", "VotingClosed"}
                  /\ (/\ now = challenge[id].deadline + VOTE_WINDOW_SECS
                      /\ a.uncertainty <= MAX_UNCERTAINTY
                      /\ a.min_rtt > 0 /\ a.min_rtt <= MAX_RTT) =>
                        VoteReply(id, p, a) = "Ok"

\* A vote cast exactly at deadline + 300 has been recorded, while another
\* staked challenger of the same challenge can still vote.
C10_Witness ==
    \E id \in ChallengeIds, p, q \in Principals :
        /\ ReachesWindowCheck(id, q)
        /\ now = challenge[id].deadline + VOTE_WINDOW_SECS
        /\ vote[VoteSeeds(id, p)].exists
        /\ vote[VoteSeeds(id, p)].challenge_id = id
        /\ challenge[id].vote_count >= 1

\* ------------------------------------------------------------ fairness
\* A principal who keeps calling is eventually served: a claim_reward or a
\* refund_failed_challenge that stays able to succeed is eventually executed.
FairSpec ==
    /\ Spec
    /\ \A id \in ChallengeIds, p \in Principals : WF_vars(ClaimReward(id, p))
    /\ \A id \in ChallengeIds, p \in Signers : WF_vars(RefundFailedChallenge(id, p, p))

Settled(id) ==
    /\ challenge[id].exists
    /\ challenge[id].status \in {"Finalized", "InsufficientParticipants"}
Emptied(id) ==
    \/ ~challenge[id].exists
    \/ challenge[id].reward_pool = 0 /\ challenge[id].rewards_distributed

\* C8: every challenge in status Finalized or InsufficientParticipants
\* eventually reaches a terminal state with its escrow emptied: claimed out
\* (reward_pool = 0, rewards_distributed) or closed by refund.
C8_SettledIsEmptied == \A id \in ChallengeIds : Settled(id) ~> Emptied(id)

\* C11: a successful finalize on a challenge with participant_count < 3 sets
\* status to InsufficientParticipants and leaves r_star as it was, whatever
\* r_star is supplied and whatever votes were cast; with participant_count
\* >= 3 it stores the supplied r_star and sets status to Finalized.
C11_FailClosed ==
    [][\A id \in ChallengeIds, a \in Signers, r \in RStars :
          (FinalizeErr(id, a, r) = "Ok" /\ Finalize(id, a, r)) =>
              IF challenge[id].participant_count < MIN_PARTICIPANTS
              THEN /\ challenge'[id].status = "InsufficientParticipants"
                   /\ challenge'[id].r_star = challenge[id].r_star
                   /\ challenge'[id].r_star # r
              ELSE /\ challenge'[id].status = "Finalized"
                   /\ challenge'[id].r_star = r]_vars

\* An under-subscribed challenge on which votes were cast has been finalized.
C11_Witness ==
    \E id \in ChallengeIds :
        /\ challenge[id].exists
        /\ challenge[id].status = "InsufficientParticipants"
        /\ challenge[id].participant_count = MIN_PARTICIPANTS - 1
        /\ challenge[id].valid_vote_count >= 1
        /\ challenge[id].r_star = 0

\* A Finalized challenge whose verdict failed.
FailedVerdict(c) == c.exists /\ c.status = "Finalized" /\ ~Passed(c)

\* C12: on a Finalized challenge with r_star > r_star_threshold, claim_reward
\* is answered ChallengeFailed for every voter, and refund_failed_challenge
\* by the waldo succeeds, closes the record and returns exactly reward_pool
\* (besides the record's own reserve) to the waldo.
C12_FailedVerdictSettlement ==
    [][\A id \in ChallengeIds :
          FailedVerdict(challenge[id]) =>
              LET c == challenge[id] IN
              /\ \A p \in Principals :
                    vote[VoteSeeds(id, p)].exists =>
                        ClaimRewardErr(id, p) = "ChallengeFailed"
              /\ RefundErr(id, c.waldo, c.waldo) = "Ok"
              /\ RefundFailedChallenge(id, c.waldo, c.waldo) =>
                    /\ ~challenge'[id].exists
                    /\ lamports'[c.waldo] = lamports[c.waldo] + c.reward_pool
                                               + RentExempt(ChallengeSpace)]_vars

\* The replies of stake, submit_vote, finalize and claim_reward on `id` to
\* callers whose accounts pass validation: a challenger with no Stake record
\* yet stakes, a staker with no Vote record yet votes (both able to pay for
\* the record), the waldo finalizes, a voter claims.
RepliesWhenUnderSubscribed(id) ==
    /\ \A p \in Principals, amount \in StakeAmounts :
          (~stake[StakeSeeds(id, p)].exists
              /\ lamports[p] >= RentExempt(StakeSpace)) =>
                 StakeErr(id, p, amount) = "ChallengeNotActive"
    /\ \A p \in Principals, a \in VoteInputs :
          (stake[StakeSeeds(id, p)].exists /\ ~vote[VoteSeeds(id, p)].exists
              /\ lamports[p] >= RentExempt(VoteSpace)) =>
                 VoteReply(id, p, a) = "ChallengeNotActive"
    /\ \A r \in RStars :
          FinalizeErr(id, challenge[id].waldo, r) = "ChallengeNotActive"
    /\ \A p \in Principals :
          vote[VoteSeeds(id, p)].exists =>
              ClaimRewardErr(id, p) = "ChallengeNotFinalized"

\* No call other than the waldo's refund succeeds on `id`, and that refund
\* pays out exactly reward_pool besides the record's own reserve.
OnlyRefundSucceeds(id) ==
    /\ \A p \in Principals, amount \in StakeAmounts : StakeErr(id, p, amount) # "Ok"
    /\ \A p \in Principals, a \in VoteInputs : VoteReply(id, p, a) # "Ok"
    /\ \A p \in Principals, r \in RStars : FinalizeErr(id, p, r) # "Ok"
    /\ \A p \in Principals : ClaimRewardErr(id, p) # "Ok"
    /\ \A p, q \in Principals : SlashErr(id, p, q) # "Ok"
    /\ \A p, q \in Principals :
          RefundErr(id, p, q) = "Ok" <=> (p = challenge[id].waldo /\ q = p)
    /\ EscrowValue(id) = challenge[id].reward_pool

\* C13: in status InsufficientParticipants stake, submit_vote and finalize
\* are answered ChallengeNotActive, claim_reward and slash (by the waldo,
\* against a staker of the challenge) ChallengeNotFinalized, and the waldo's
\* refund is the only call that succeeds; it returns the whole pool.
C13_UnderSubscribedOneExit ==
    \A id \in ChallengeIds :
        (challenge[id].exists /\ challenge[id].status = "InsufficientParticipants") =>
            /\ RepliesWhenUnderSubscribed(id)
            /\ \A p \in Principals :
                  stake[StakeSeeds(id, p)].exists =>
                      SlashErr(id, p, challenge[id].waldo) = "ChallengeNotFinalized"
            /\ OnlyRefundSucceeds(id)

\* A later epoch of the program.  Earlier, w created challenge BaseId, c1
\* staked MIN_STAKE on it, w finalized it under-subscribed and took the
\* refund, which closed the Challenge record.  Nothing closes c1's Stake
\* record, so it is still there; the refund paid c1's stake to w.  The clock
\* is read relative to this epoch: no remaining record holds a time.
InitRecreate ==
    /\ cfg_test = FALSE
    /\ overflow_checks = TRUE
    /\ now = 0
    /\ challenge = [i \in ChallengeIds |-> NoAccount]
    /\ stake = [a \in StakeAddrs |->
                  IF a = StakeSeeds(BaseId, "c1")
                  THEN NewStake(BaseId, "c1", MIN_STAKE) ELSE NoAccount]
    /\ vote = [a \in VoteAddrs |-> NoAccount]
    /\ lamports = [k \in Principals \cup {ChallengeKey(i) : i \in ChallengeIds} |->
                     IF k = "w" THEN InitialLamports(k) + MIN_STAKE
                     ELSE IF k = "c1"
                          THEN InitialLamports(k) - MIN_STAKE - RentExempt(StakeSpace)
                     ELSE IF k \in Principals THEN InitialLamports(k) ELSE 0]
    /\ hist = [i \in ChallengeIds |-> NoHist]

SpecRecreate == InitRecreate /\ [][Next]_vars

\* C14: on every challenge record valid_vote_count <= vote_count <=
\* participant_count <= 20, and every counted vote belongs to a principal
\* that holds a Stake record for the challenge.
C14_CounterOrdering ==
    \A id \in ChallengeIds : challenge[id].exists =>
        /\ challenge[id].valid_vote_count <= challenge[id].vote_count
        /\ challenge[id].vote_count <= challenge[id].participant_count
        /\ challenge[id].participant_count <= MAX_PARTICIPANTS

\* C15: while a challenge record exists its status changes only from Active
\* to Finalized or to InsufficientParticipants, and only by a successful
\* finalize; it is never Expired; on a non-Active record the waldo's finalize
\* is answered ChallengeNotActive and nobody's finalize succeeds; r_star
\* changes only in the step that leaves Active.
C15_StatusMonotonic ==
    [][\A id \in ChallengeIds :
          (challenge[id].exists /\ challenge'[id].exists) =>
              LET c == challenge[id]  d == challenge'[id] IN
              /\ d.status \in {"Active", "Finalized", "InsufficientParticipants"}
              /\ d.status # c.status =>
                    /\ c.status = "Active"
                    /\ \E a \in Signers, r \in RStars :
                          FinalizeErr(id, a, r) = "Ok" /\ Finalize(id, a, r)
              /\ d.r_star # c.r_star => (c.status = "Active" /\ d.status = "Finalized")
              /\ c.status # "Active" =>
                    /\ \A r \in RStars : FinalizeErr(id, c.waldo, r) = "ChallengeNotActive"
                    /\ \A a \in Principals, r \in RStars : FinalizeErr(id, a, r) # "Ok"]_vars

\* A finalized challenge holds its verdict and the waldo's next finalize,
\* with another r_star, is refused.
C15_Witness ==
    \E id \in ChallengeIds :
        /\ challenge[id].exists
        /\ challenge[id].status = "Finalized"
        /\ challenge[id].r_star = DEFAULT_R_STAR_THRESHOLD + 1
        /\ FinalizeErr(id, challenge[id].waldo, DEFAULT_R_STAR_THRESHOLD)
              = "ChallengeNotActive"

\* The program compiled with cfg(test), from the same start as Init except
\* that c3 holds nothing.
InitTestBuild ==
    /\ cfg_test = TRUE
    /\ overflow_checks = TRUE
    /\ now = 0
    /\ challenge = [i \in ChallengeIds |-> NoAccount]
    /\ stake = [a \in StakeAddrs |-> NoAccount]
    /\ vote = [a \in VoteAddrs |-> NoAccount]
    /\ lamports = [k \in Principals \cup {ChallengeKey(i) : i \in ChallengeIds} |->
                     IF k \in Principals \ {"c3"} THEN InitialLamports(k) ELSE 0]
    /\ hist = [i \in ChallengeIds |-> NoHist]

SpecTestBuild == InitTestBuild /\ [][Next]_vars

\* C16: finalize succeeds only strictly after deadline + the window that
\* submit_vote applies; on every challenge record participant_count does not
\* change once a vote has been accepted (stakes precede votes), and
\* vote_count and valid_vote_count do not change once the record has left
\* Active (votes precede the finalize).
C16_PhaseOrdering ==
    [][\A id \in ChallengeIds : challenge[id].exists =>
          LET c == challenge[id]  d == challenge'[id] IN
          /\ \A a \in Signers, r \in RStars :
                FinalizeErr(id, a, r) = "Ok" => now > c.deadline + VOTE_WINDOW_SECS
          /\ d.exists =>
                /\ c.vote_count > 0 => d.participant_count = c.participant_count
                /\ c.status # "Active" =>
                      /\ d.vote_count = c.vote_count
                      /\ d.valid_vote_count = c.valid_vote_count]_vars

\* The call `A` cannot change any variable.
LeavesAllUnchanged(A) == ~ENABLED (A /\ vars' # vars)

OthersUnauthorized(id) ==
    \A p \in Principals \ {challenge[id].waldo} :
        /\ \A r \in RStars : FinalizeErr(id, p, r) = "Unauthorized"
        /\ \A q \in Principals : RefundErr(id, q, p) = "Unauthorized"

\* While a record is Active nothing leaves its escrow, and it leaves Active
\* only by the waldo's finalize.
ActiveUntilWaldoActs(id) ==
    (challenge[id].exists /\ challenge[id].status = "Active") =>
        /\ challenge'[id].exists
        /\ lamports'[ChallengeKey(id)] >= lamports[ChallengeKey(id)]
        /\ challenge'[id].status # "Active" =>
              \E r \in RStars : Finalize(id, challenge[id].waldo, r)

\* C18: finalize, slash (against a staker of the challenge) and
\* refund_failed_challenge called by anyone but the waldo are answered
\* Unauthorized; as long as the waldo does not act the status stays Active
\* and no value leaves the escrow.
C18_CreatorOnly ==
    [][\A id \in ChallengeIds : challenge[id].exists =>
          /\ OthersUnauthorized(id)
          /\ \A p \in Principals \ {challenge[id].waldo}, q \in Principals :
                stake[StakeSeeds(id, q)].exists => SlashErr(id, q, p) = "Unauthorized"
          /\ ActiveUntilWaldoActs(id)]_vars

\* The reply to refund_failed_challenge called by the waldo of `id`.
WaldoRefundReply(id) == RefundErr(id, challenge[id].waldo, challenge[id].waldo)

\* C19 as written: the waldo's refund is answered ChallengeNotFinalized while
\* Active, RewardsAlreadyDistributed when rewards_distributed is true, and
\* CannotRefundSuccessfulChallenge when Finalized with r_star <=
\* r_star_threshold.
C19_RefundRepliesAsWritten ==
    \A id \in ChallengeIds : challenge[id].exists =>
        LET c == challenge[id] IN
        /\ c.status = "Active" => WaldoRefundReply(id) = "ChallengeNotFinalized"
        /\ c.rewards_distributed => WaldoRefundReply(id) = "RewardsAlreadyDistributed"
        /\ (c.status = "Finalized" /\ Passed(c)) =>
              WaldoRefundReply(id) = "CannotRefundSuccessfulChallenge"

\* C19 amended: the waldo's refund is answered ChallengeNotFinalized while
\* Active, else RewardsAlreadyDistributed when rewards_distributed is true,
\* else CannotRefundSuccessfulChallenge when Finalized with r_star <=
\* r_star_threshold, and succeeds otherwise, i.e. exactly when the status is
\* InsufficientParticipants or Finalized with r_star > r_star_threshold and
\* rewards_distributed is false; on a closed record no refund succeeds.
C19_RefundPreconditions ==
    \A id \in ChallengeIds :
        LET c == challenge[id] IN
        IF c.exists
        THEN /\ WaldoRefundReply(id) =
                   IF c.status = "Active" THEN "ChallengeNotFinalized"
                   ELSE IF c.rewards_distributed THEN "RewardsAlreadyDistributed"
                   ELSE IF c.status = "Finalized" /\ Passed(c)
                        THEN "CannotRefundSuccessfulChallenge"
                   ELSE "Ok"
             /\ WaldoRefundReply(id) = "Ok" <=>
                   /\ \/ c.status = "InsufficientParticipants"
                      \/ c.status = "Finalized" /\ ~Passed(c)
                   /\ ~c.rewards_distributed
        ELSE \A p, q \in Principals : RefundErr(id, p, q) # "Ok"

\* A claimed-out challenge, whose waldo asks for a refund, next to a record
\* that a refund has closed.
C19_Witness ==
    \E id, other \in ChallengeIds :
        /\ challenge[id].exists
        /\ challenge[id].rewards_distributed
        /\ WaldoRefundReply(id) = "RewardsAlreadyDistributed"
        /\ ~challenge[other].exists
        /\ hist[other].refunded > 0

\* Either build of the program, from the same start as Init except that c3
\* holds nothing.
InitBuilds ==
    /\ cfg_test = FALSE
    /\ overflow_checks \in BOOLEAN
    /\ now = 0
    /\ challenge = [i \in ChallengeIds |-> NoAccount]
    /\ stake = [a \in StakeAddrs |-> NoAccount]
    /\ vote = [a \in VoteAddrs |-> NoAccount]
    /\ lamports = [k \in Principals \cup {ChallengeKey(i) : i \in ChallengeIds} |->
                     IF k \in Principals \ {"c3"} THEN InitialLamports(k) ELSE 0]
    /\ hist = [i \in ChallengeIds |-> NoHist]

SpecBuilds == InitBuilds /\ [][Next]_vars

\* The parameters the specification accepts, |x| taken in the integers.
ValidParameters(a) ==
    /\ 0 < a.duration /\ a.duration <= MAX_DURATION
    /\ a.reward_pool > 0
    /\ -MAX_LAT <= a.lat /\ a.lat <= MAX_LAT
    /\ -MAX_LON <= a.lon /\ a.lon <= MAX_LON

\* The call reaches the handler: the address is free and the creator can pay
\* the rent of the record.
ReachesCreateHandler(id, w) ==
    ~challenge[id].exists /\ lamports[w] >= RentExempt(ChallengeSpace)

\* C20: a creation that reaches the handler succeeds only with 0 < duration
\* <= 86400, reward_pool > 0, |claimed_lat| <= 90_000_000 and |claimed_lon|
\* <= 180_000_000, and otherwise is answered InvalidParameters, for every i32
\* coordinate including -2^31; a step that creates a record was made with
\* such parameters and leaves status Active, all counters 0, r_star_threshold
\* 1000, rewards_distributed false and reward_pool equal to the amount that
\* moved from the creator into escrow.
C20_CreationValidation ==
    [][\A id \in ChallengeIds, w \in Signers, a \in CreateArgs :
          LET err == InitializeChallengeErr(id, w, a.lat, a.lon, a.duration, a.reward_pool)
              c == challenge'[id]
          IN
          /\ ReachesCreateHandler(id, w) =>
                /\ err = "Ok" => ValidParameters(a)
                /\ ~ValidParameters(a) => err = "InvalidParameters"
          /\ (/\ InitializeChallenge(id, w, a.lat, a.lon, a.duration, a.reward_pool)
              /\ vars' # vars) =>
                /\ ValidParameters(a)
                /\ c.exists /\ c.status = "Active"
                /\ c.participant_count = 0 /\ c.vote_count = 0
                /\ c.valid_vote_count = 0
                /\ c.r_star_threshold = DEFAULT_R_STAR_THRESHOLD
                /\ ~c.rewards_distributed
                /\ c.reward_pool = a.reward_pool
                /\ lamports'[w] = lamports[w] - RentExempt(ChallengeSpace) - c.reward_pool
                /\ lamports'[ChallengeKey(id)] = lamports[ChallengeKey(id)]
                      + RentExempt(ChallengeSpace) + c.reward_pool]_vars

\* A crowded challenge.  Earlier, w created challenge BaseId with duration 1
\* and CrowdSize challengers outside Principals staked MIN_STAKE each; their
\* Stake records lie at addresses of their own and they do not act again.
\* w is left with what one stake costs, c1 and c2 can stake and vote, c3
\* holds nothing.
\* The clock is read relative to the creation.
CrowdSize == 18
Crowd == {"crowd" \o ToString(i) : i \in 1..CrowdSize}
InitCrowd ==
    /\ cfg_test = FALSE
    /\ overflow_checks = TRUE
    /\ now = 0
    /\ challenge = [i \in ChallengeIds |->
                      IF i = BaseId
                      THEN [NewChallenge(BaseId, "w", ValidCreateArgs.lat,
                                         ValidCreateArgs.lon, 1, Funding)
                              EXCEPT !.reward_pool = Funding + CrowdSize * MIN_STAKE,
                                     !.participant_count = CrowdSize]
                      ELSE NoAccount]
    /\ stake = [a \in StakeAddrs |-> NoAccount]
    /\ vote = [a \in VoteAddrs |-> NoAccount]
    /\ lamports = [k \in Principals \cup {ChallengeKey(i) : i \in ChallengeIds} |->
                     IF k = "w"
                     THEN InitialLamports(k) - 2 * (Funding + RentExempt(ChallengeSpace))
                     ELSE IF k \in {"c1", "c2"} THEN InitialLamports(k)
                     ELSE IF k = ChallengeKey(BaseId)
                          THEN RentExempt(ChallengeSpace) + Funding + CrowdSize * MIN_STAKE
                     ELSE 0]
    /\ hist = [i \in ChallengeIds |->
                 IF i = BaseId
                 THEN [NoHist EXCEPT !.funding = Funding,
                                     !.staked = CrowdSize * MIN_STAKE,
                                     !.stakers = Crowd]
                 ELSE NoHist]

SpecCrowd == InitCrowd /\ [][Next]_vars

\* C21: stake transactions on one challenge take effect one after another:
\* every step in which a challenger's Stake record appears raises the
\* challenge's participant_count by one and its reward_pool by the staked
\* amount, taken from the challenger, and never beyond 20 participants; the
\* step that takes participant_count from 19 to 20 leaves every other
\* challenger who could have staked answered MaxParticipantsReached.
C21_StakesSerialize ==
    [][\A id \in ChallengeIds, p \in Principals :
          LET a == StakeSeeds(id, p)
              c == challenge[id]
              d == challenge'[id]
          IN
          (c.exists /\ ~stake[a].exists /\ stake'[a].exists) =>
              /\ d.exists
              /\ d.participant_count = c.participant_count + 1
              /\ d.participant_count <= MAX_PARTICIPANTS
              /\ d.reward_pool = c.reward_pool + stake'[a].amount
              /\ lamports'[p] = lamports[p] - RentExempt(StakeSpace) - stake'[a].amount
              /\ lamports'[ChallengeKey(id)] = lamports[ChallengeKey(id)] + stake'[a].amount
              /\ \A q \in Principals \ {p} : lamports'[q] = lamports[q]
              /\ c.participant_count = MAX_PARTICIPANTS - 1 =>
                    \A q \in Principals \ {p}, amount \in StakeAmounts :
                        StakeErr(id, q, amount) = "Ok" =>
                            StakeErr(id, q, amount)' = "MaxParticipantsReached"]_vars

\* Two challengers raced for the twentieth place: one holds a Stake record,
\* the other, who has no record and could pay, is answered
\* MaxParticipantsReached.
C21_Witness ==
    \E p, q \in Principals :
        /\ p # q
        /\ challenge[BaseId].exists
        /\ challenge[BaseId].participant_count = MAX_PARTICIPANTS
        /\ stake[StakeSeeds(BaseId, p)].exists
        /\ ~stake[StakeSeeds(BaseId, q)].exists
        /\ lamports[q] >= RentExempt(StakeSpace) + MIN_STAKE
        /\ StakeErr(BaseId, q, MIN_STAKE) = "MaxParticipantsReached"

\* C22: on every challenge record a claim that passes its checks pays no
\* more than reward_pool holds at that moment, no claim_reward is answered
\* ArithmeticOverflow, and the payouts made so far sum to no more than
\* reward_pool as it stood at finalize plus what slash added to it since.
C22_ClaimsWithinPool ==
    \A id \in ChallengeIds : challenge[id].exists =>
        LET c == challenge[id] IN
        /\ \A winner \in Principals :
              /\ ClaimRewardErr(id, winner) # "ArithmeticOverflow"
              /\ ClaimRewardErr(id, winner) = "Ok" =>
                    /\ RewardPerParticipant(c) <= c.reward_pool
                    /\ CheckedSub(c.reward_pool, RewardPerParticipant(c)) >= 0
        /\ SumPaid(hist[id].paid) <= hist[id].finalPool + hist[id].slashed
        /\ \A i \in 1..Len(hist[id].paid) :
              hist[id].paid[i][2] <= hist[id].finalPool + hist[id].slashed

\* A record from which two claims were paid and to whose pool slash added.
C22_Witness ==
    \E id \in ChallengeIds :
        /\ challenge[id].exists
        /\ Len(hist[id].paid) >= 2
        /\ hist[id].slashed > 0

\* C23: on every challenge record, once a claim has been paid the record
\* stays open and no refund succeeds on it; a record that a step closes has
\* paid no claim; and a record that is Finalized with r_star <=
\* r_star_threshold stays so, its reward_pool falling only by the payout of
\* a claim.
C23_ClaimsExcludeRefund ==
    [][\A id \in ChallengeIds :
          LET c == challenge[id]
              d == challenge'[id]
          IN
          c.exists =>
              /\ hist[id].paid # <<>> =>
                    /\ d.exists
                    /\ \A p, q \in Principals : RefundErr(id, p, q) # "Ok"
              /\ ~d.exists =>
                    /\ hist[id].paid = <<>>
                    /\ hist'[id].refunded = EscrowValue(id)
              /\ (c.status = "Finalized" /\ Passed(c)) =>
                    /\ d.exists /\ d.status = "Finalized" /\ Passed(d)
                    /\ \A p, q \in Principals : RefundErr(id, p, q) # "Ok"
                    /\ d.reward_pool < c.reward_pool =>
                          /\ Len(hist'[id].paid) = Len(hist[id].paid) + 1
                          /\ c.reward_pool - d.reward_pool
                                = hist'[id].paid[Len(hist'[id].paid)][2]]_vars

\* A passed record after a partial claim: a payout was made, a remainder is
\* left in the pool and the waldo's refund is refused.
C23_Witness ==
    \E id \in ChallengeIds :
        /\ challenge[id].exists
        /\ hist[id].paid # <<>>
        /\ challenge[id].reward_pool > 0
        /\ ~challenge[id].rewards_distributed
        /\ WaldoRefundReply(id) = "CannotRefundSuccessfulChallenge"

\* A later epoch of the program.  Earlier, w created challenge BaseId, c1
\* staked MIN_STAKE on it and voted is_valid = true, w finalized it
\* under-subscribed and took the refund, which closed the Challenge record.
\* Nothing closes c1's Stake and Vote records, so they are still there; the
\* refund paid c1's stake to w.  The clock is read relative to this epoch: no
\* remaining record holds a time.
InitRecreateVoted ==
    /\ cfg_test = FALSE
    /\ overflow_checks = TRUE
    /\ now = 0
    /\ challenge = [i \in ChallengeIds |-> NoAccount]
    /\ stake = [a \in StakeAddrs |->
                  IF a = StakeSeeds(BaseId, "c1")
                  THEN NewStake(BaseId, "c1", MIN_STAKE) ELSE NoAccount]
    /\ vote = [a \in VoteAddrs |->
                 IF a = VoteSeeds(BaseId, "c1")
                 THEN NewVote(BaseId, "c1", TRUE, 100, 5000) ELSE NoAccount]
    /\ lamports = [k \in Principals \cup {ChallengeKey(i) : i \in ChallengeIds} |->
                     IF k = "w" THEN InitialLamports(k) + MIN_STAKE
                     ELSE IF k = "c1"
                          THEN InitialLamports(k) - MIN_STAKE - RentExempt(StakeSpace)
                                 - RentExempt(VoteSpace)
                     ELSE IF k \in Principals THEN InitialLamports(k) ELSE 0]
    /\ hist = [i \in ChallengeIds |-> NoHist]

SpecRecreateVoted == InitRecreateVoted /\ [][Next]_vars

\* C24: on every challenge record the number of claims paid is at most
\* valid_vote_count, and every principal paid submitted a vote with is_valid
\* = true to that record.
C24_OnlyCountedVotersPaid ==
    \A id \in ChallengeIds : challenge[id].exists =>
        /\ Len(hist[id].paid) <= challenge[id].valid_vote_count
        /\ \A i \in 1..Len(hist[id].paid) :
              hist[id].paid[i][1] \in hist[id].validVoters

\* A later epoch of the program.  Earlier, w created challenge BaseId with
\* duration 1, MIN_PARTICIPANTS challengers outside Principals staked
\* MIN_STAKE each, nobody voted, and w finalized it with r_star at the
\* threshold.  The clock is read relative to the finalize.  c1 holds what two
\* stakes and a vote cost, c3 holds nothing.
InitFinalized ==
    /\ cfg_test = FALSE
    /\ overflow_checks = TRUE
    /\ now = 0
    /\ challenge = [i \in ChallengeIds |->
                      IF i = BaseId
                      THEN [NewChallenge(BaseId, "w", ValidCreateArgs.lat,
                                         ValidCreateArgs.lon, 1, Funding)
                              EXCEPT !.start_time = -(VOTING_WINDOW + 2),
                                     !.deadline = -(VOTING_WINDOW + 1),
                                     !.reward_pool = Funding + MIN_PARTICIPANTS * MIN_STAKE,
                                     !.participant_count = MIN_PARTICIPANTS,
                                     !.r_star = DEFAULT_R_STAR_THRESHOLD,
                                     !.status = "Finalized"]
                      ELSE NoAccount]
    /\ stake = [a \in StakeAddrs |-> NoAccount]
    /\ vote = [a \in VoteAddrs |-> NoAccount]
    /\ lamports = [k \in Principals \cup {ChallengeKey(i) : i \in ChallengeIds} |->
                     IF k = "w"
                     THEN InitialLamports(k) - Funding - RentExempt(ChallengeSpace)
                     ELSE IF k = "c1"
                          THEN InitialLamports(k) + MIN_STAKE + RentExempt(StakeSpace)
                     ELSE IF k = "c2" THEN InitialLamports(k)
                     ELSE IF k = ChallengeKey(BaseId)
                          THEN RentExempt(ChallengeSpace) + Funding
                                 + MIN_PARTICIPANTS * MIN_STAKE
                     ELSE 0]
    /\ hist = [i \in ChallengeIds |->
                 IF i = BaseId
                 THEN [NoHist EXCEPT
                         !.funding = Funding,
                         !.staked = MIN_PARTICIPANTS * MIN_STAKE,
                         !.stakers = {"crowd" \o ToString(n) : n \in 1..MIN_PARTICIPANTS},
                         !.finalPool = Funding + MIN_PARTICIPANTS * MIN_STAKE]
                 ELSE NoHist]

SpecFinalized == InitFinalized /\ [][Next]_vars

\* The challengers whose Stake record a slash has consumed.
SlashedChallengers == UNION {hist[i].slashedKeys : i \in ChallengeIds}

\* C25: no Stake record has slashed = true, no submit_vote is answered
\* StakeSlashed, and no step adds a Vote record for a challenger whom a slash
\* has slashed before.
C25_StakeSlashedUnreachable ==
    [][/\ \A a \in StakeAddrs : stake[a].exists => ~stake[a].slashed
       /\ \A id \in ChallengeIds, p \in Principals, a \in VoteArgs :
             SubmitVoteErr(id, p, a.is_valid, a.uncertainty, a.min_rtt) # "StakeSlashed"
       /\ \A id \in ChallengeIds, p \in Principals :
             (~vote[VoteSeeds(id, p)].exists /\ vote'[VoteSeeds(id, p)].exists) =>
                 p \notin SlashedChallengers]_vars
====
